---- MODULE Spec2Model ----
(***************************************************************************)
(* A model of PlentyMarketRestClient (src/plentymarket.py): the client's   *)
(* stored state, login, refreshLogin, and the _safeQuery wrapper around    *)
(* get, post, put and delete.                                              *)
(*                                                                         *)
(* Strings are sequences of one-character strings, so that concatenation   *)
(* (\o), slicing and URL encoding are computed as the code computes them.  *)
(* An optional value (Python's None or a value) is <<>> or <<value>>.      *)
(* A call is modelled step by step: the caller invokes an operation, the   *)
(* operation runs through the statements that read or write the client's   *)
(* shared fields or talk to the server, and the caller collects the        *)
(* outcome.  What the server will answer to the request of login or of a   *)
(* verb is part of the call's input; its answer to the refresh a verb call *)
(* makes is drawn when the refresh is made.                                *)
(***************************************************************************)
EXTENDS Integers, Sequences, FiniteSets, TLC

VARIABLES
    headers,        \* self._headers: header name -> value
    refreshToken,   \* self._refresh_token
    lastStatus,     \* self._last_request_status_code
    lastContent,    \* self._last_request_content (optional)
    calls,          \* per caller thread: the call in progress
    lastReceived,   \* history: status of the login or verb response
                    \* received last (optional)
    overlapped      \* history: two calls have been in progress at once

vars == <<headers, refreshToken, lastStatus, lastContent, calls,
          lastReceived, overlapped>>

---------------------------------------------------------------------------
(* Bounds of the model *)

\* number of distinct access tokens / refresh tokens the server hands out
NumTokens == 2
\* number of distinct response bodies the server sends
NumBodies == 2
\* largest number of parameters in the data of a get whose URL is examined
MaxParams == 2

---------------------------------------------------------------------------
(* Values *)

None == <<>>
Some(v) == <<v>>

Digit == <<"1", "2", "3", "4", "5", "6", "7", "8", "9">>

AccessTokens == { <<"a", Digit[i]>> : i \in 1..NumTokens }
RefreshTokens == { <<"r", Digit[i]>> : i \in 1..NumTokens }
Bodies == { <<"b", Digit[i]>> : i \in 1..NumBodies }

StatusOK == 200
StatusUnauthorized == 401
StatusNotFound == 404
\* the statuses the server answers with; 500 stands for "any other status"
Statuses == {StatusOK, StatusUnauthorized, StatusNotFound, 500}

Verbs == {"get", "post", "put", "delete"}

\* the caller threads; single-threaded use is one thread alone
Threads == {1, 2}
SingleThread == {1}

\* api_url, the default of __init__
BaseUrl == <<"h","t","t","p","s",":","/","/","w","w","w",".",
             "p","l","e","n","t","y","m","a","r","k","e","t","s",".",
             "c","o",".","u","k","/","r","e","s","t","/">>

LoginPath == <<"a","c","c","o","u","n","t","/","l","o","g","i","n">>
RefreshPath == LoginPath \o <<"/","r","e","f","r","e","s","h">>

Bearer == <<"B","e","a","r","e","r"," ">>

EmptyHeaders == [k \in {} |-> <<>>]

\* dict.update: the entries of header overwrite those of h
DictUpdate(h, header) ==
    [k \in DOMAIN h \cup DOMAIN header |->
        IF k \in DOMAIN header THEN header[k] ELSE h[k]]

---------------------------------------------------------------------------
(* urllib.parse.urlencode, over strings of printable ASCII characters *)

\* the characters quote_plus leaves as they are: letters, digits and _.-~
SafeChars ==
    {"a", "b", "c", "d", "e", "f", "g", "h", "i", "j", "k", "l", "m",
     "n", "o", "p", "q", "r", "s", "t", "u", "v", "w", "x", "y", "z",
     "A", "B", "C", "D", "E", "F", "G", "H", "I", "J", "K", "L", "M",
     "N", "O", "P", "Q", "R", "S", "T", "U", "V", "W", "X", "Y", "Z",
     "0", "1", "2", "3", "4", "5", "6", "7", "8", "9",
     "_", ".", "-", "~"}

\* the printable ASCII characters in the order of their codes: 32 to 95,
\* and 97 to 126 (the character of code 96 cannot be written in a string
\* of this language and is left out)
AsciiLow ==
    <<" ", "!", "\"", "#", "$", "%", "&", "'", "(", ")", "*", "+", ",", "-",
      ".", "/", "0", "1", "2", "3", "4", "5", "6", "7", "8", "9", ":", ";",
      "<", "=", ">", "?", "@", "A", "B", "C", "D", "E", "F", "G", "H", "I",
      "J", "K", "L", "M", "N", "O", "P", "Q", "R", "S", "T", "U", "V", "W",
      "X", "Y", "Z", "[", "\\", "]", "^", "_">>

AsciiHigh ==
    <<"a", "b", "c", "d", "e", "f", "g", "h", "i", "j", "k", "l", "m", "n",
      "o", "p", "q", "r", "s", "t", "u", "v", "w", "x", "y", "z", "{", "|",
      "}", "~">>

\* ord(ch)
CharCode(ch) ==
    IF \E i \in 1..Len(AsciiLow) : AsciiLow[i] = ch
    THEN 31 + CHOOSE i \in 1..Len(AsciiLow) : AsciiLow[i] = ch
    ELSE 96 + CHOOSE i \in 1..Len(AsciiHigh) : AsciiHigh[i] = ch

HexDigits == <<"0", "1", "2", "3", "4", "5", "6", "7",
               "8", "9", "A", "B", "C", "D", "E", "F">>

\* quote_plus of one character: kept, "+" for the space, or "%" and the
\* two hexadecimal digits of its code
QuoteChar(ch) ==
    IF ch \in SafeChars THEN <<ch>>
    ELSE IF ch = " " THEN <<"+">>
    ELSE LET n == CharCode(ch)
         IN  <<"%", HexDigits[(n \div 16) + 1], HexDigits[(n % 16) + 1]>>

RECURSIVE QuotePlus(_)
QuotePlus(s) ==
    IF s = <<>> THEN <<>> ELSE QuoteChar(Head(s)) \o QuotePlus(Tail(s))

\* an encoding that emits the items last to first
RECURSIVE UrlEncode_Reversed(_)
UrlEncode_Reversed(data) ==
    IF data = <<>> THEN <<>>
    ELSE LET item == QuotePlus(data[1][1]) \o <<"=">> \o QuotePlus(data[1][2])
         IN  IF Len(data) = 1 THEN item
             ELSE UrlEncode_Reversed(Tail(data)) \o <<"&">> \o item

\* data: the dict's items in insertion order, each <<key, value>>
RECURSIVE UrlEncode(_)
UrlEncode(data) ==
    IF data = <<>> THEN <<>>
    ELSE LET item == QuotePlus(data[1][1]) \o <<"=">> \o QuotePlus(data[1][2])
         IN  IF Len(data) = 1 THEN item
             ELSE item \o <<"&">> \o UrlEncode(Tail(data))

\* s[:-1]
AllButLast(s) == IF s = <<>> THEN <<>> ELSE SubSeq(s, 1, Len(s) - 1)

\* the URL get requests
GetUrl(endpoint, data) ==
    LET query == UrlEncode(data)
        q == IF AllButLast(endpoint) # <<"?">> THEN <<"?">> \o query ELSE query
    IN  BaseUrl \o endpoint \o q

\* the request each verb function hands to the requests library:
\* headers and body are optional (absent when the keyword is not passed)
PostRequest(endpoint, data, h) ==
    [method |-> "post", url |-> BaseUrl \o endpoint,
     headers |-> Some(h), body |-> Some(data)]

DeleteRequest(endpoint, data, h) ==
    [method |-> "delete", url |-> BaseUrl \o endpoint,
     headers |-> None, body |-> None]

GetRequest(endpoint, data, h) ==
    [method |-> "get", url |-> GetUrl(endpoint, data),
     headers |-> Some(h), body |-> None]

\* a put that passes the stored headers, as post and get do
PutRequest_WithHeaders(endpoint, data, h) ==
    [method |-> "put", url |-> BaseUrl \o endpoint,
     headers |-> Some(h), body |-> Some(data)]

PutRequest(endpoint, data, h) ==
    [method |-> "put", url |-> BaseUrl \o endpoint,
     headers |-> None, body |-> Some(data)]

\* post's body names requets, which is not defined: the call raises
\* NameError before any request is built
FuncRaises(op) == op = "post"

VerbRequest(op, endpoint, data, h) ==
    CASE op = "post"   -> PostRequest(endpoint, data, h)
      [] op = "delete" -> DeleteRequest(endpoint, data, h)
      [] op = "get"    -> GetRequest(endpoint, data, h)
      [] op = "put"    -> PutRequest(endpoint, data, h)

---------------------------------------------------------------------------
(* What the server does with a call's requests: part of the call's input *)

\* no answer: the exchange raises (connection refused, timeout, ...)
Down == [up |-> FALSE, status |-> 0, body |-> <<>>]

\* the answer to the verb's request
VerbReplies ==
    {Down} \cup [up : {TRUE}, status : Statuses, body : Bodies]

\* the answer to refreshLogin's request; hasToken: the response text
\* contains the substring refreshToken
RefreshReplies ==
    {[up |-> FALSE, hasToken |-> FALSE]} \cup [up : {TRUE}, hasToken : BOOLEAN]

\* the answer to login's request; json says what response.text decodes to.
\*   notJson                 text that is not JSON
\*   null, int, float, bool  a JSON value on which "in" is not defined
\*   strBoth, listBoth       a JSON string (a list) that contains both names
\*                           as substrings (as elements)
\*   both                    an object with both fields, the values strings
\*   accessInt               an object with both fields, whose accessToken is
\*                           a number
\*   accessOnly, refreshOnly, neither
\*                           an object, string or list in which "in" finds
\*                           only the one name, or neither
ScalarKinds == {"null", "int", "float", "bool"}

JsonKinds ==
    {"both", "accessInt", "accessOnly", "refreshOnly", "neither", "notJson",
     "strBoth", "listBoth"} \cup ScalarKinds

LoginReply(status, json, access, refresh) ==
    [up |-> TRUE, status |-> status, body |-> <<>>, json |-> json,
     access |-> access, refresh |-> refresh]

LoginReplies ==
    {[up |-> FALSE, status |-> 0, body |-> <<>>, json |-> "notJson",
      access |-> <<>>, refresh |-> <<>>]}
    \cup { LoginReply(s, "both", a, r) :
              s \in Statuses, a \in AccessTokens, r \in RefreshTokens }
    \cup { LoginReply(s, "accessInt", <<>>, r) :
              s \in Statuses, r \in RefreshTokens }
    \cup { LoginReply(s, "accessOnly", a, <<>>) :
              s \in Statuses, a \in AccessTokens }
    \cup { LoginReply(s, "refreshOnly", <<>>, r) :
              s \in Statuses, r \in RefreshTokens }
    \cup { LoginReply(s, j, <<>>, <<>>) :
              s \in Statuses,
              j \in {"neither", "notJson", "strBoth", "listBoth"}
                      \cup ScalarKinds }

\* the arguments the callers pass to the verbs: <<api_endpoint, data,
\* passed>>.  passed: data is given as the second argument; when it is not,
\* data is the default {} of get, post and put
VerbArgs ==
    { << <<"p">>, <<>>, FALSE >>,
      << <<"?", "p">>,
         << << <<"a">>, <<"1">> >>, << <<"b">>, <<"x", " ", "y">> >> >>,
         TRUE >> }

\* the endpoints and parameters of the gets whose URL is examined
PimAttributes == <<"p","i","m","/","a","t","t","r","i","b","u","t","e","s">>

UrlEndpoints ==
    { PimAttributes, <<"p">>, <<"p", "?">>, <<"?", "p">>, <<"p", "?", "a">> }

ParamKeys == { <<"a">>, <<"b">>, <<"c">> }
ParamValues == { <<"1">>, <<"2">>, <<"x", " ", "y", "&", "%", "M">> }

\* dicts of at most MaxParams items: the keys are distinct, the order is
\* the order of insertion
UrlData ==
    UNION { { d \in [1..n -> ParamKeys \X ParamValues] :
                \A i, j \in 1..n : i # j => d[i][1] # d[j][1] } :
            n \in 0..MaxParams }

---------------------------------------------------------------------------
(* Exceptions and printed lines *)

NoErr == [type |-> "", msg |-> ""]
NameErr == [type |-> "NameError", msg |-> "name 'requets' is not defined"]
ConnErr == [type |-> "ConnectionError", msg |-> "connection failed"]
AttrErr ==
    [type |-> "AttributeError",
     msg |-> "'PlentyMarketRestClient' object has no attribute 'safeQuery'"]
RaiseStrErr ==
    [type |-> "TypeError", msg |-> "exceptions must derive from BaseException"]
StrIndexErr ==
    [type |-> "TypeError", msg |-> "string indices must be integers, not 'str'"]
JsonErr == [type |-> "JSONDecodeError", msg |-> "Expecting value"]
ListIndexErr ==
    [type |-> "TypeError",
     msg |-> "list indices must be integers or slices, not str"]
ConcatErr ==
    [type |-> "TypeError",
     msg |-> "can only concatenate str (not \"int\") to str"]
DeleteArgsErr ==
    [type |-> "TypeError",
     msg |-> "PlentyMarketRestClient.delete() takes 2 positional arguments but 3 were given"]

\* "accessToken" in data, for data that is no container
NotIterableErr(kind) ==
    [type |-> "TypeError",
     msg |-> CASE kind = "null"  -> "argument of type 'NoneType' is not iterable"
               [] kind = "int"   -> "argument of type 'int' is not iterable"
               [] kind = "float" -> "argument of type 'float' is not iterable"
               [] kind = "bool"  -> "argument of type 'bool' is not iterable"]

\* print("Error: " + str(e))
ErrorLine(e) == <<"Error: ", e.msg>>

UnauthorizedLine == <<"Unauthorized: expired or invalid access token.">>
RefreshingLine == <<"Refreshing access token..">>
LoggedInLine == <<"Logged in successfully!">>
LoginErrorLine ==
    <<"Error: Could not login. invalid credentials or API endpoint">>

---------------------------------------------------------------------------
(* The call in progress of a thread *)

IdleCall ==
    [pc |-> "idle", op |-> "", endpoint |-> <<>>, data |-> <<>>,
     passed |-> FALSE, reply |-> Down, rreply |-> [up |-> FALSE, hasToken |-> FALSE],
     pre |-> None, req |-> None, resp |-> None,
     ret |-> "", err |-> NoErr, printed |-> <<>>,
     nRefresh |-> 0, nVerb |-> 0, steps |-> 0]

\* the client's fields when the call was made
Snapshot ==
    [headers |-> headers, refreshToken |-> refreshToken,
     lastStatus |-> lastStatus, lastContent |-> lastContent]

NewCall(op, endpoint, data, reply, rreply, pc) ==
    [IdleCall EXCEPT !.pc = pc, !.op = op, !.endpoint = endpoint,
                     !.data = data, !.reply = reply, !.rreply = rreply,
                     !.pre = Some(Snapshot), !.ret = "pending"]

\* the call moves on to the statement pc
Goto(c, pc) == [c EXCEPT !.pc = pc, !.steps = @ + 1]

\* the call returns to its caller: ret is "response" or "None"
Returns(c, ret, lines) ==
    [c EXCEPT !.pc = "done", !.ret = ret, !.printed = @ \o lines,
              !.steps = @ + 1]

\* the wrapper's except clause: the exception is printed and the wrapper
\* falls off its end, returning None
Caught(c, e, lines) ==
    [c EXCEPT !.pc = "done", !.ret = "None", !.err = e,
              !.printed = @ \o lines \o <<ErrorLine(e)>>, !.steps = @ + 1]

\* no except clause: the exception reaches the caller
Raises(c, e) ==
    [c EXCEPT !.pc = "done", !.ret = "raised", !.err = e, !.steps = @ + 1]

Init ==
    /\ headers = EmptyHeaders
    /\ refreshToken = <<>>
    /\ lastStatus = StatusOK
    /\ lastContent = None
    /\ calls = [t \in Threads |-> IdleCall]
    /\ lastReceived = None
    /\ overlapped = FALSE

\* a call is in progress: invoked and not yet returned to its caller
InProgress(c) == c.pc \notin {"idle", "done"}

\* the history variables follow the step: a response handed to login or to
\* the wrapper is the one received last, and two calls in progress overlap
Observe ==
    /\ lastReceived' =
          IF \E t \in Threads : calls'[t].resp # None
                                 /\ calls'[t].resp # calls[t].resp
          THEN LET t == CHOOSE u \in Threads : calls'[u].resp # None
                                               /\ calls'[u].resp # calls[u].resp
               IN  Some(calls'[t].resp[1].status)
          ELSE lastReceived
    /\ overlapped' =
          (overlapped \/ \E t, u \in Threads : /\ t # u
                                               /\ InProgress(calls'[t])
                                               /\ InProgress(calls'[u]))

---------------------------------------------------------------------------
(* login *)

\* the caller invokes login(email, password, id)
LoginCall(t, reply) ==
    /\ calls[t].pc = "idle"
    /\ calls' = [calls EXCEPT ![t] = NewCall("login", LoginPath, <<>>, reply,
                                             IdleCall.rreply, "loginPost")]
    /\ UNCHANGED <<headers, refreshToken, lastStatus, lastContent>>
    /\ Observe

\* response = requests.post(url, json=data), up to the request: it is
\* handed to the requests library, and the call waits for the answer
LoginPost(t) ==
    LET c == calls[t]
        c1 == [c EXCEPT !.req = Some([method |-> "post",
                                      url |-> BaseUrl \o LoginPath,
                                      headers |-> None,
                                      body |-> Some(<<"email", "password",
                                                      "id">>)])]
    IN
    /\ c.pc = "loginPost"
    /\ calls' = [calls EXCEPT ![t] = Goto(c1, "loginResponse")]
    /\ UNCHANGED <<headers, refreshToken, lastStatus, lastContent>>
    /\ Observe

\* response = requests.post(url, json=data), from the request on: the
\* exchange fails, or the response comes back
LoginResponse(t) ==
    LET c == calls[t] IN
    /\ c.pc = "loginResponse"
    /\ calls' = [calls EXCEPT ![t] =
                    IF c.reply.up
                    THEN Goto([c EXCEPT !.resp = Some(c.reply)], "loginStatus")
                    ELSE Raises(c, ConnErr)]
    /\ UNCHANGED <<headers, refreshToken, lastStatus, lastContent>>
    /\ Observe

\* self.setLastStatusCode(response.status_code)
LoginStatus(t) ==
    LET c == calls[t] IN
    /\ c.pc = "loginStatus"
    /\ lastStatus' = c.resp[1].status
    /\ calls' = [calls EXCEPT ![t] = Goto(c, "loginParse")]
    /\ UNCHANGED <<headers, refreshToken, lastContent>>
    /\ Observe

\* a login that tests the two keys with "or"
HasBothTokens_Or(reply) ==
    reply.json \in {"both", "accessInt", "strBoth", "listBoth",
                    "accessOnly", "refreshOnly"}

\* the condition of login's if: both keys are in the decoded object
HasBothTokens(reply) ==
    reply.json \in {"both", "accessInt", "strBoth", "listBoth"}

\* a login that installs the bare token, without the Bearer prefix
LoginHeaders_NoBearer(h, access) ==
    DictUpdate(h, [Authorization |-> access])

\* what login installs: setHeader({'Authorization': 'Bearer ' + access_token})
LoginHeaders(h, access) ==
    DictUpdate(h, [Authorization |-> Bearer \o access])

\* a login that forgets to store the refresh token
LoginRefreshToken_Kept(rt, reply) == rt

\* what login stores as the refresh token
LoginRefreshToken(rt, reply) == reply.refresh

\* data = json.loads(response.text), the if on the two keys and, with both
\* found, access_token = data["accessToken"] and the assignment of
\* self._refresh_token; the else branch prints and returns
LoginParse(t) ==
    LET c == calls[t]
        r == c.resp[1]
    IN
    /\ c.pc = "loginParse"
    /\ IF r.json = "notJson"
       THEN /\ calls' = [calls EXCEPT ![t] = Raises(c, JsonErr)]
            /\ UNCHANGED refreshToken
       ELSE IF r.json \in ScalarKinds
       THEN /\ calls' = [calls EXCEPT ![t] = Raises(c, NotIterableErr(r.json))]
            /\ UNCHANGED refreshToken
       ELSE IF HasBothTokens(r)
       THEN \* access_token = data["accessToken"] raises on a string or list
            IF r.json = "strBoth"
            THEN /\ calls' = [calls EXCEPT ![t] = Raises(c, StrIndexErr)]
                 /\ UNCHANGED refreshToken
            ELSE IF r.json = "listBoth"
            THEN /\ calls' = [calls EXCEPT ![t] = Raises(c, ListIndexErr)]
                 /\ UNCHANGED refreshToken
            ELSE /\ refreshToken' = LoginRefreshToken(refreshToken, r)
                 /\ calls' = [calls EXCEPT ![t] = Goto(c, "loginSetHeader")]
       ELSE /\ calls' = [calls EXCEPT ![t] =
                            Returns(c, "response", <<LoginErrorLine>>)]
            /\ UNCHANGED refreshToken
    /\ UNCHANGED <<headers, lastStatus, lastContent>>
    /\ Observe

\* self.setHeader({'Authorization': 'Bearer ' + access_token}), the print
\* and return response; the concatenation raises for an access token that
\* is no string
LoginSetHeader(t) ==
    LET c == calls[t]
        r == c.resp[1]
    IN
    /\ c.pc = "loginSetHeader"
    /\ IF r.json = "accessInt"
       THEN /\ calls' = [calls EXCEPT ![t] = Raises(c, ConcatErr)]
            /\ UNCHANGED headers
       ELSE /\ headers' = LoginHeaders(headers, r.access)
            /\ calls' = [calls EXCEPT ![t] =
                            Returns(c, "response", <<LoggedInLine>>)]
    /\ UNCHANGED <<refreshToken, lastStatus, lastContent>>
    /\ Observe

---------------------------------------------------------------------------
(* refreshLogin *)

\* a refreshLogin that drops the stored refresh token before it asks for a
\* new one
RefreshLogin_Clears(rreply, rt) ==
    IF ~rreply.up THEN [err |-> ConnErr, refreshToken |-> <<>>]
    ELSE IF rreply.hasToken
         THEN [err |-> StrIndexErr, refreshToken |-> <<>>]
         ELSE [err |-> NoErr, refreshToken |-> <<>>]

\* the refresh token in a refresh response whose text has one
NewRefreshToken == <<"r", "0">>

\* a refreshLogin that decodes the response and stores its refreshToken
RefreshLogin_Stores(rreply, rt) ==
    IF ~rreply.up THEN [err |-> ConnErr, refreshToken |-> rt]
    ELSE IF rreply.hasToken
         THEN [err |-> NoErr, refreshToken |-> NewRefreshToken]
         ELSE [err |-> NoErr, refreshToken |-> rt]

\* refreshLogin's body: the POST with the current headers, then the test
\* "refreshToken" in response.text and the subscript of that text.
\* Gives the exception it raises (NoErr: it returns the response) and the
\* refresh token stored after it.
RefreshLogin(rreply, rt) ==
    IF ~rreply.up THEN [err |-> ConnErr, refreshToken |-> rt]
    ELSE IF rreply.hasToken
         \* data is a str: data["refreshToken"] raises before the assignment
         THEN [err |-> StrIndexErr, refreshToken |-> rt]
         ELSE [err |-> NoErr, refreshToken |-> rt]

\* the request refreshLogin sends
RefreshRequest(h) ==
    [method |-> "post", url |-> BaseUrl \o RefreshPath,
     headers |-> Some(h), body |-> None]

\* the caller invokes refreshLogin() itself
RefreshCall(t, rreply) ==
    /\ calls[t].pc = "idle"
    /\ calls' = [calls EXCEPT ![t] = NewCall("refreshLogin", RefreshPath, <<>>,
                                             Down, rreply, "refresh")]
    /\ UNCHANGED <<headers, refreshToken, lastStatus, lastContent>>
    /\ Observe

\* refreshLogin's requests.post, up to the request: it is built from the
\* headers stored now and handed to the requests library
RefreshSent(c, h) ==
    [c EXCEPT !.nRefresh = @ + 1, !.req = Some(RefreshRequest(h))]

\* refreshLogin called by the caller: the request is sent
RefreshPost(t) ==
    LET c == calls[t] IN
    /\ c.pc = "refresh"
    /\ calls' = [calls EXCEPT ![t] =
                    Goto(RefreshSent(c, headers), "refreshResponse")]
    /\ UNCHANGED <<headers, refreshToken, lastStatus, lastContent>>
    /\ Observe

\* refreshLogin called by the caller: the request is answered, and the
\* rest of the body runs
RefreshRun(t) ==
    LET c == calls[t]
        out == RefreshLogin(c.rreply, refreshToken)
    IN
    /\ c.pc = "refreshResponse"
    /\ refreshToken' = out.refreshToken
    /\ calls' = [calls EXCEPT ![t] =
                    IF out.err = NoErr THEN Returns(c, "response", <<>>)
                    ELSE Raises(c, out.err)]
    /\ UNCHANGED <<headers, lastStatus, lastContent>>
    /\ Observe

---------------------------------------------------------------------------
(* _safeQuery.wrapper around get, post, put and delete *)

\* the caller invokes a verb
VerbCall(t, op, endpoint, data, passed, reply) ==
    /\ calls[t].pc = "idle"
    /\ calls' = [calls EXCEPT ![t] =
                    [NewCall(op, endpoint, data, reply, IdleCall.rreply,
                             "entry")
                        EXCEPT !.passed = passed]]
    /\ UNCHANGED <<headers, refreshToken, lastStatus, lastContent>>
    /\ Observe

\* a wrapper whose second branch is a plain else
Entry_ElseBranch(t) ==
    LET c == calls[t] IN
    /\ c.pc = "entry"
    /\ calls' = [calls EXCEPT ![t] =
                    IF lastStatus = StatusOK THEN Goto(c, "func200")
                    ELSE Goto(c, "refresh401")]
    /\ UNCHANGED <<headers, refreshToken, lastStatus, lastContent>>
    /\ Observe

\* the wrapper's if / elif on self._last_request_status_code; with neither
\* branch taken the wrapper falls off its end and returns None
Entry(t) ==
    LET c == calls[t] IN
    /\ c.pc = "entry"
    /\ calls' = [calls EXCEPT ![t] =
                    IF lastStatus = StatusOK THEN Goto(c, "func200")
                    ELSE IF lastStatus = StatusUnauthorized
                         THEN Goto(c, "refresh401")
                         ELSE Returns(c, "None", <<>>)]
    /\ UNCHANGED <<headers, refreshToken, lastStatus, lastContent>>
    /\ Observe

\* the exception the call of the verb's function raises before it has a
\* request to send: delete takes no data, and post's body names requets,
\* which is not defined
FuncError(c) ==
    IF c.op = "delete" /\ c.passed THEN DeleteArgsErr
    ELSE IF FuncRaises(c.op) THEN NameErr
    ELSE NoErr

\* response = func(*args, **kwargs), up to the request: the function raises,
\* or builds its request from the headers stored now and hands it to the
\* requests library
Func(c, h, next) ==
    IF FuncError(c) # NoErr THEN Caught(c, FuncError(c), <<>>)
    ELSE Goto([c EXCEPT !.nVerb = @ + 1,
                        !.req = Some(VerbRequest(c.op, c.endpoint, c.data, h))],
              next)

\* response = func(*args, **kwargs), from the request on: the exchange
\* fails, or the response comes back and is bound to response
FuncResponse(c, next) ==
    IF c.reply.up THEN Goto([c EXCEPT !.resp = Some(c.reply)], next)
    ELSE Caught(c, ConnErr, <<>>)

\* healthy branch: func is called and sends its request
Func200(t) ==
    /\ calls[t].pc = "func200"
    /\ calls' = [calls EXCEPT ![t] = Func(calls[t], headers, "response200")]
    /\ UNCHANGED <<headers, refreshToken, lastStatus, lastContent>>
    /\ Observe

\* healthy branch: the request is answered
Response200(t) ==
    /\ calls[t].pc = "response200"
    /\ calls' = [calls EXCEPT ![t] = FuncResponse(calls[t], "status200")]
    /\ UNCHANGED <<headers, refreshToken, lastStatus, lastContent>>
    /\ Observe

\* a wrapper that forgets to record the status in its healthy branch
Status200_Skip(t) ==
    LET c == calls[t] IN
    /\ c.pc = "status200"
    /\ calls' = [calls EXCEPT ![t] = Goto(c, "dispatch200")]
    /\ UNCHANGED <<headers, refreshToken, lastStatus, lastContent>>
    /\ Observe

\* healthy branch: self.setLastStatusCode(response.status_code)
Status200(t) ==
    LET c == calls[t] IN
    /\ c.pc = "status200"
    /\ lastStatus' = c.resp[1].status
    /\ calls' = [calls EXCEPT ![t] = Goto(c, "dispatch200")]
    /\ UNCHANGED <<headers, refreshToken, lastContent>>
    /\ Observe

\* healthy branch, status 401: the print, then self.safeQuery(self, func);
\* the client has no attribute safeQuery, so AttributeError is raised and
\* caught by the wrapper
On401(c) == Caught(c, AttrErr, <<UnauthorizedLine>>)

\* healthy branch, status 404: raise("...") raises TypeError, since a str
\* is no exception; the wrapper catches it
On404(c) == Caught(c, RaiseStrErr, <<>>)

\* a wrapper that caches the body of every response
ContentAfter_Always(content, resp) == Some(resp.body)

\* the content the wrapper stores for a response: the body of a 200,
\* else what was stored
ContentAfter(content, resp) ==
    IF resp.status = StatusOK THEN Some(resp.body) ELSE content

\* healthy branch: the three ifs on response.status_code and the return
Dispatch200(t) ==
    LET c == calls[t]
        r == c.resp[1]
    IN
    /\ c.pc = "dispatch200"
    /\ lastContent' = ContentAfter(lastContent, r)
    /\ calls' = [calls EXCEPT ![t] =
                    IF r.status = StatusUnauthorized THEN On401(c)
                    ELSE IF r.status = StatusNotFound THEN On404(c)
                    ELSE Returns(c, "response", <<>>)]
    /\ UNCHANGED <<headers, refreshToken, lastStatus>>
    /\ Observe

\* unauthorized branch: the print and self.refreshLogin(), up to its
\* request
Refresh401(t) ==
    LET c == calls[t]
        c1 == [RefreshSent(c, headers) EXCEPT
                  !.printed = @ \o <<RefreshingLine>>]
    IN
    /\ c.pc = "refresh401"
    /\ calls' = [calls EXCEPT ![t] = Goto(c1, "refreshResponse401")]
    /\ UNCHANGED <<headers, refreshToken, lastStatus, lastContent>>
    /\ Observe

\* unauthorized branch: the server answers the refresh request with rreply,
\* and the rest of refreshLogin runs
RefreshResponse401(t, rreply) ==
    LET c == calls[t]
        out == RefreshLogin(rreply, refreshToken)
        c1 == [c EXCEPT !.rreply = rreply]
    IN
    /\ c.pc = "refreshResponse401"
    /\ refreshToken' = out.refreshToken
    /\ calls' = [calls EXCEPT ![t] =
                    IF out.err = NoErr THEN Goto(c1, "func401")
                    ELSE Caught(c1, out.err, <<>>)]
    /\ UNCHANGED <<headers, lastStatus, lastContent>>
    /\ Observe

\* unauthorized branch: func is called and sends its request
Func401(t) ==
    /\ calls[t].pc = "func401"
    /\ calls' = [calls EXCEPT ![t] = Func(calls[t], headers, "response401")]
    /\ UNCHANGED <<headers, refreshToken, lastStatus, lastContent>>
    /\ Observe

\* unauthorized branch: the request is answered
Response401(t) ==
    /\ calls[t].pc = "response401"
    /\ calls' = [calls EXCEPT ![t] = FuncResponse(calls[t], "content401")]
    /\ UNCHANGED <<headers, refreshToken, lastStatus, lastContent>>
    /\ Observe

\* unauthorized branch: if response.status_code == 200: setLastRequestContent
Content401(t) ==
    LET c == calls[t] IN
    /\ c.pc = "content401"
    /\ lastContent' = ContentAfter(lastContent, c.resp[1])
    /\ calls' = [calls EXCEPT ![t] = Goto(c, "status401")]
    /\ UNCHANGED <<headers, refreshToken, lastStatus>>
    /\ Observe

\* an unauthorized branch that refreshes and asks again for as long as the
\* answer is 401
AfterStatus401_Loop(c) ==
    IF c.resp[1].status = StatusUnauthorized THEN Goto(c, "refresh401")
    ELSE Returns(c, "response", <<>>)

\* unauthorized branch: where the call goes after recording the status
AfterStatus401(c) == Returns(c, "response", <<>>)

\* unauthorized branch: self.setLastStatusCode(...) and return response
Status401(t) ==
    LET c == calls[t] IN
    /\ c.pc = "status401"
    /\ lastStatus' = c.resp[1].status
    /\ calls' = [calls EXCEPT ![t] = AfterStatus401(c)]
    /\ UNCHANGED <<headers, refreshToken, lastContent>>
    /\ Observe

\* the caller has the outcome of its call and is free to call again
Return(t) ==
    /\ calls[t].pc = "done"
    /\ calls' = [calls EXCEPT ![t] = IdleCall]
    /\ UNCHANGED <<headers, refreshToken, lastStatus, lastContent>>
    /\ Observe

---------------------------------------------------------------------------
(* The setters and the header mapping handed out by getHeaders *)

BasicValue == <<"B", "a", "s", "i", "c", " ", "z", "z">>

\* the dicts the callers pass to setHeader
HeaderArgs == { [Authorization |-> BasicValue] }

\* the caller calls setHeader(header)
SetHeader(t, header) ==
    /\ calls[t].pc = "idle"
    /\ headers' = DictUpdate(headers, header)
    /\ UNCHANGED <<refreshToken, lastStatus, lastContent, calls>>
    /\ Observe

\* the caller calls setLastStatusCode(status_code)
SetLastStatusCode(t, status) ==
    /\ calls[t].pc = "idle"
    /\ lastStatus' = status
    /\ UNCHANGED <<headers, refreshToken, lastContent, calls>>
    /\ Observe

\* the caller calls setLastRequestContent(content)
SetLastRequestContent(t, content) ==
    /\ calls[t].pc = "idle"
    /\ lastContent' = content
    /\ UNCHANGED <<headers, refreshToken, lastStatus, calls>>
    /\ Observe

\* getHeaders() returns the client's own dict: the caller removes an entry
\* of it, getHeaders().pop(key)
HeadersPop(t, key) ==
    /\ calls[t].pc = "idle"
    /\ key \in DOMAIN headers
    /\ headers' = [k \in DOMAIN headers \ {key} |-> headers[k]]
    /\ UNCHANGED <<refreshToken, lastStatus, lastContent, calls>>
    /\ Observe

---------------------------------------------------------------------------
(* Specifications *)

\* one statement of the call thread t has in progress
Step(t) ==
    \/ LoginPost(t)
    \/ LoginResponse(t)
    \/ LoginStatus(t)
    \/ LoginParse(t)
    \/ LoginSetHeader(t)
    \/ RefreshPost(t)
    \/ RefreshRun(t)
    \/ Entry(t)
    \/ Func200(t)
    \/ Response200(t)
    \/ Status200(t)
    \/ Dispatch200(t)
    \/ Refresh401(t)
    \/ \E rreply \in RefreshReplies : RefreshResponse401(t, rreply)
    \/ Func401(t)
    \/ Response401(t)
    \/ Content401(t)
    \/ Status401(t)

\* thread t invokes an operation
Invoke(t) ==
    \/ \E reply \in LoginReplies : LoginCall(t, reply)
    \/ \E rreply \in RefreshReplies : RefreshCall(t, rreply)
    \/ \E op \in Verbs, a \in VerbArgs, reply \in VerbReplies :
            VerbCall(t, op, a[1], a[2], a[3], reply)

\* thread t, between its calls, writes a field through a setter or through
\* the dict of getHeaders
Direct(t) ==
    \/ \E header \in HeaderArgs : SetHeader(t, header)
    \/ \E status \in Statuses : SetLastStatusCode(t, status)
    \/ \E content \in {None} \cup {Some(b) : b \in Bodies} :
            SetLastRequestContent(t, content)
    \/ \E key \in {"Authorization"} : HeadersPop(t, key)

\* single-threaded use: one caller, one call at a time
Next ==
    \E t \in SingleThread : Invoke(t) \/ Step(t) \/ Return(t) \/ Direct(t)

Spec == Init /\ [][Next]_vars

\* the caller invokes get on an endpoint with parameters; the server answers
\* 200
GetCall(t) ==
    \E e \in UrlEndpoints, d \in UrlData, b \in Bodies :
        VerbCall(t, "get", e, d, TRUE,
                 [up |-> TRUE, status |-> StatusOK, body |-> b])

\* gets alone, over a wider range of endpoints and parameters
NextUrl ==
    \E t \in SingleThread :
        \/ GetCall(t)
        \/ Entry(t)
        \/ Func200(t)
        \/ Response200(t)
        \/ Status200(t)
        \/ Dispatch200(t)
        \/ Return(t)

SpecUrl == Init /\ [][NextUrl]_vars

\* a caller invokes get; the server answers with some status
ConcVerbCall(t) ==
    \E op \in {"get"}, s \in Statuses :
        VerbCall(t, op, <<"p">>, <<>>, FALSE,
                 [up |-> TRUE, status |-> s, body |-> <<"b", "1">>])

\* a caller invokes login; the server answers 200 and an object with both
\* tokens, or refuses with 401 and an object without
ConcLoginCall(t) ==
    \/ LoginCall(t, LoginReply(StatusOK, "both", <<"a", "1">>, <<"r", "1">>))
    \/ LoginCall(t, LoginReply(StatusUnauthorized, "neither", <<>>, <<>>))

\* two callers share the client: their calls interleave statement by
\* statement
NextConc ==
    \E t \in Threads :
        \/ ConcVerbCall(t)
        \/ ConcLoginCall(t)
        \/ LoginPost(t)
        \/ LoginResponse(t)
        \/ LoginStatus(t)
        \/ LoginParse(t)
        \/ LoginSetHeader(t)
        \/ Entry(t)
        \/ Func200(t)
        \/ Response200(t)
        \/ Status200(t)
        \/ Dispatch200(t)
        \/ Refresh401(t)
        \/ RefreshResponse401(t, [up |-> TRUE, hasToken |-> FALSE])
        \/ Func401(t)
        \/ Response401(t)
        \/ Content401(t)
        \/ Status401(t)
        \/ Return(t)

SpecConc == Init /\ [][NextConc]_vars

---------------------------------------------------------------------------
(* Properties *)

IsVerbDone(c) == c.pc = "done" /\ c.op \in Verbs
\* the caller passed the arguments the verb takes: delete takes no data
ArgsFit(c) == ~(c.op = "delete" /\ c.passed)
IsLoginDone(c) == c.pc = "done" /\ c.op = "login"
GotResponse(c, status) == c.resp # None /\ c.resp[1].status = status
Pre(c) == c.pre[1]

\* C1: a verb call whose response has status 401 performs exactly one
\* refreshLogin and exactly one retry of the verb's request (two requests
\* of the verb in all) before it returns.
C1_RefreshAndRetryOn401 ==
    \A t \in Threads :
        LET c == calls[t] IN
        (IsVerbDone(c) /\ GotResponse(c, 401))
            => (c.nRefresh = 1 /\ c.nVerb = 2)

\* C2: whatever last status and last content were before, a verb call to
\* whose request the server answers 200 ends with last content equal to the
\* answer's body and last status 200.
C2_Ok200StoresContent ==
    \A t \in Threads :
        LET c == calls[t] IN
        (IsVerbDone(c) /\ ArgsFit(c) /\ c.reply.up /\ c.reply.status = 200)
            => (lastContent = <<c.reply.body>> /\ lastStatus = 200)

\* C3: after a login whose response decodes to an object with accessToken
\* and refreshToken (string fields), Authorization is "Bearer " followed by
\* the access token, the stored refresh token is the response's, and last
\* status is the response's status code.
C3_LoginInstallsTokens ==
    \A t \in Threads :
        LET c == calls[t] IN
        (IsLoginDone(c) /\ c.reply.up /\ c.reply.json = "both")
            => /\ "Authorization" \in DOMAIN headers
               /\ headers["Authorization"]
                    = <<"B", "e", "a", "r", "e", "r", " ">> \o c.reply.access
               /\ refreshToken = c.reply.refresh
               /\ lastStatus = c.reply.status
               /\ c.ret = "response"

\* a login with both tokens has completed on a client that already held
\* another Authorization entry and another refresh token
C3_Witness ==
    \E t \in Threads :
        LET c == calls[t] IN
        /\ IsLoginDone(c) /\ c.reply.up /\ c.reply.json = "both"
        /\ "Authorization" \in DOMAIN Pre(c).headers
        /\ Pre(c).headers["Authorization"] # headers["Authorization"]
        /\ Pre(c).refreshToken \notin {<<>>, refreshToken}
        /\ Pre(c).lastStatus # lastStatus

\* C4: a login whose response decodes to an object that lacks accessToken
\* or refreshToken leaves the header mapping and the stored refresh token as
\* they were, and reports the failure without raising: it prints the login
\* error and returns the response.
C4_FailedLoginKeepsHeaders ==
    \A t \in Threads :
        LET c == calls[t] IN
        (IsLoginDone(c) /\ c.reply.up
            /\ c.reply.json \in {"accessOnly", "refreshOnly", "neither"})
            => /\ headers = Pre(c).headers
               /\ refreshToken = Pre(c).refreshToken
               /\ c.ret = "response"
               /\ c.err.type = ""
               /\ c.printed
                    = << <<"Error: Could not login. invalid credentials or API endpoint">> >>

\* a login answered with an accessToken alone has completed on a client
\* that holds an Authorization entry
C4_Witness ==
    \E t \in Threads :
        LET c == calls[t] IN
        /\ IsLoginDone(c) /\ c.reply.up /\ c.reply.json = "accessOnly"
        /\ "Authorization" \in DOMAIN Pre(c).headers
        /\ Pre(c).refreshToken # <<>>

\* the threads whose login completes successfully in this step
LoginSucceeding ==
    { t \in Threads : /\ calls[t].pc = "loginSetHeader"
                      /\ calls[t].resp[1].json = "both"
                      /\ calls'[t].pc = "done" }

\* the step is one of a login, refreshLogin or verb call (its invocation,
\* one of its statements, its return), not a write by the caller
StepOfCall == calls' # calls

\* C5: a successful login makes Authorization the Bearer value of its access
\* token, and once an Authorization entry is there no other step of a call
\* (of a verb, of refreshLogin, of a failed login) changes it.
C5_AuthorizationKept ==
    [][ IF LoginSucceeding # {}
        THEN \E t \in LoginSucceeding :
                /\ "Authorization" \in DOMAIN headers'
                /\ headers'["Authorization"]
                     = <<"B", "e", "a", "r", "e", "r", " ">>
                         \o calls[t].resp[1].access
        ELSE ("Authorization" \in DOMAIN headers /\ StepOfCall)
                => /\ "Authorization" \in DOMAIN headers'
                   /\ headers'["Authorization"] = headers["Authorization"]
      ]_vars

\* after a successful login, a verb call that went through refreshLogin and
\* was answered 401 has completed
C5_Witness ==
    \E t \in Threads :
        LET c == calls[t] IN
        /\ IsVerbDone(c) /\ GotResponse(c, 401) /\ c.nRefresh = 1
        /\ "Authorization" \in DOMAIN headers

\* C6: a verb call entered with last status 200 or 401 whose HTTP exchange
\* (the verb's, or the refresh's before it) fails with an exception returns
\* None, raises nothing, and leaves last status, last content, the header
\* mapping and the refresh token as they were.
C6_TransportFailureKeepsState ==
    \A t \in Threads :
        LET c == calls[t] IN
        (IsVerbDone(c) /\ Pre(c).lastStatus \in {200, 401}
            /\ c.err.type = "ConnectionError")
            => (c.ret = "None" /\ Snapshot = Pre(c))

\* a verb call entered with last status 401 on a logged-in client went
\* through the refresh and then failed to reach the server
C6_Witness ==
    \E t \in Threads :
        LET c == calls[t] IN
        /\ IsVerbDone(c) /\ Pre(c).lastStatus = 401
        /\ c.err.type = "ConnectionError"
        /\ c.nRefresh = 1 /\ c.nVerb = 1
        /\ Pre(c).refreshToken # <<>>
        /\ Pre(c).lastContent # <<>>

\* C7: login and refreshLogin never raise to their caller, and when the
\* exchange fails or the body cannot be parsed the client's state is as
\* before the call.
C7_LoginNeverRaises ==
    \A t \in Threads :
        LET c == calls[t] IN
        (c.pc = "done" /\ c.op \in {"login", "refreshLogin"})
            => /\ c.ret # "raised"
               /\ (c.op = "login"
                    /\ (~c.reply.up
                        \/ c.reply.json \in {"notJson", "null", "int", "float",
                                              "bool", "strBoth", "listBoth",
                                              "accessInt"}))
                    => Snapshot = Pre(c)
               /\ (c.op = "refreshLogin" /\ ~c.rreply.up)
                    => Snapshot = Pre(c)

\* what the caller can tell from the call's outcome: the returned value
\* and the printed error
Outcome(c) ==
    IF c.ret = "response" THEN "PassedThrough"
    ELSE IF c.ret = "raised" THEN "Raised"
    ELSE IF c.err.msg = "HTTP 404 Error, unvalid API endpoint"
         THEN "EndpointNotFound"
    ELSE "NoResponse"

\* C8: a verb call whose response has status 404 leaves last content as it
\* was and has an endpoint-not-found outcome, which the caller can tell
\* from a transport failure and from a passed-through response.
C8_NotFoundClassified ==
    \A t \in Threads :
        LET c == calls[t] IN
        (IsVerbDone(c) /\ GotResponse(c, 404))
            => /\ lastContent = Pre(c).lastContent
               /\ Outcome(c) = "EndpointNotFound"

\* the request the interface gives for a verb: GET base+endpoint followed
\* by the encoded query (behind a "?" or not), POST and PUT base+endpoint
\* with the data as body, DELETE base+endpoint without body
IsRequestOf(req, op, endpoint, data) ==
    /\ req.method = op
    /\ IF op = "get"
       THEN req.url \in { BaseUrl \o endpoint \o UrlEncode(data),
                          BaseUrl \o endpoint \o <<"?">> \o UrlEncode(data) }
       ELSE req.url = BaseUrl \o endpoint
    /\ req.body = (IF op \in {"post", "put"} THEN <<data>> ELSE <<>>)

\* C9: a verb called while last status is 200, with the server reachable,
\* issues exactly one request of its own verb to base + endpoint and hands
\* the server's response to the wrapper.
C9_OneRequestOfTheVerb ==
    \A t \in Threads :
        LET c == calls[t] IN
        (IsVerbDone(c) /\ ArgsFit(c) /\ Pre(c).lastStatus = 200 /\ c.reply.up)
            => /\ c.nVerb = 1
               /\ c.req # <<>>
               /\ IsRequestOf(c.req[1], c.op, c.endpoint, c.data)
               /\ c.resp = <<c.reply>>

\* C10: a verb call terminates: it takes at most seven steps and, until it
\* has returned, its next step is enabled; it never issues more than one
\* refreshLogin request nor more than two requests of the verb.
C10_CallBounded ==
    \A t \in Threads :
        LET c == calls[t] IN
        (c.op \in Verbs)
            => /\ c.nRefresh <= 1
               /\ c.nVerb <= 2
               /\ c.steps <= 7
               /\ c.pc # "done" => ENABLED Step(t)

\* a verb call entered with last status 401 was answered 401 again and has
\* returned after one refresh and one request
C10_Witness ==
    \E t \in Threads :
        LET c == calls[t] IN
        /\ IsVerbDone(c) /\ Pre(c).lastStatus = 401 /\ GotResponse(c, 401)
        /\ c.nRefresh = 1 /\ c.nVerb = 1 /\ c.ret = "response"

HasChar(s, ch) == \E i \in 1..Len(s) : s[i] = ch

\* C11: get on an endpoint without "?" requests base + endpoint + "?" + the
\* encoded parameters in the order given; pim/attributes with a=1, b=2
\* gives <base>pim/attributes?a=1&b=2.
C11_GetUrlOfPlainEndpoint ==
    \A t \in Threads :
        LET c == calls[t] IN
        (c.op = "get" /\ c.req # <<>> /\ ~HasChar(c.endpoint, "?"))
            => /\ c.req[1].method = "get"
               /\ c.req[1].url
                    = BaseUrl \o c.endpoint \o <<"?">> \o UrlEncode(c.data)
               /\ (c.endpoint = <<"p","i","m","/","a","t","t","r","i","b",
                                  "u","t","e","s">>
                    /\ c.data = << << <<"a">>, <<"1">> >>,
                                   << <<"b">>, <<"2">> >> >>)
                    => c.req[1].url
                        = BaseUrl \o <<"p","i","m","/","a","t","t","r","i",
                                       "b","u","t","e","s","?","a","=","1",
                                       "&","b","=","2">>

\* get('pim/attributes', {a: 1, b: 2}) has sent its request
C11_Witness ==
    \E t \in Threads :
        LET c == calls[t] IN
        /\ c.op = "get" /\ c.pc = "done" /\ c.ret = "response"
        /\ c.endpoint = PimAttributes
        /\ c.data = << << <<"a">>, <<"1">> >>, << <<"b">>, <<"2">> >> >>
        /\ c.req # <<>>

\* C19: get prepends "?" to the encoded query exactly when the endpoint's
\* last character is not "?"; for an endpoint ending in "?" the URL is
\* base + endpoint + encoded query.
C19_QuestionMarkByLastChar ==
    \A t \in Threads :
        LET c == calls[t]
            e == c.endpoint
        IN
        (c.op = "get" /\ c.req # <<>>)
            => c.req[1].url
                = BaseUrl \o e
                    \o (IF e[Len(e)] # "?" THEN <<"?">> ELSE <<>>)
                    \o UrlEncode(c.data)

\* C12: a verb call entered while last status is 401, with the server
\* answering the refresh (whatever its body) and the verb, calls refreshLogin
\* once, issues the verb's request once, sets last content to the body iff
\* the status is 200, sets last status to the response's, and returns the
\* response.
C12_UnauthorizedBranch ==
    \A t \in Threads :
        LET c == calls[t] IN
        (IsVerbDone(c) /\ ArgsFit(c) /\ Pre(c).lastStatus = 401
            /\ c.rreply.up /\ c.reply.up)
            => /\ c.nRefresh = 1
               /\ c.nVerb = 1
               /\ lastContent = (IF c.reply.status = 200 THEN <<c.reply.body>>
                                 ELSE Pre(c).lastContent)
               /\ lastStatus = c.reply.status
               /\ c.ret = "response"
               /\ c.resp = <<c.reply>>

\* the client's fields are those the call found
Untouched(c) == Snapshot = Pre(c)

\* a verb call that found last status other than 200 and 401 has done
\* nothing; one that has sent a request found 200 or 401
C13_StuckCalls ==
    \A t \in Threads :
        LET c == calls[t] IN
        (c.op \in Verbs)
            => /\ (c.nVerb > 0 \/ c.nRefresh > 0 \/ c.req # <<>>)
                    => Pre(c).lastStatus \in {200, 401}
               /\ (c.pc = "done" /\ Pre(c).lastStatus \notin {200, 401})
                    => /\ c.nVerb = 0 /\ c.nRefresh = 0 /\ c.req = <<>>
                       /\ c.resp = <<>> /\ c.ret = "None"
                       /\ Untouched(c)

\* C13: a verb call issues a request only when last status on entry is 200
\* or 401; with any other last status it issues no request, returns no
\* response and changes nothing, and such a last status is replaced only by
\* a login recording its response's status or by the caller setting it.
C13_StuckUntilLogin ==
    [][ /\ C13_StuckCalls'
        /\ (lastStatus \notin {200, 401} /\ lastStatus' # lastStatus)
            => \/ \E t \in Threads : /\ calls[t].op = "login"
                                      /\ calls[t].pc = "loginStatus"
                                      /\ calls'[t].pc = "loginParse"
                                      /\ lastStatus' = calls[t].resp[1].status
               \/ /\ ~StepOfCall
                  /\ UNCHANGED <<headers, refreshToken, lastContent>>
      ]_vars

\* a verb call made while last status is 500, on a server that would answer
\* 200, has returned None
C13_Witness ==
    \E t \in Threads :
        LET c == calls[t] IN
        /\ IsVerbDone(c) /\ Pre(c).lastStatus = 500
        /\ c.reply.up /\ c.reply.status = 200 /\ c.ret = "None"
        /\ lastStatus = 500

\* thread t runs refreshLogin in this step, called directly or by the
\* wrapper
RefreshStepOf(t) ==
    /\ calls[t].pc \in {"refresh", "refreshResponse",
                        "refresh401", "refreshResponse401"}
    /\ calls'[t].pc # calls[t].pc

\* C14: refreshLogin leaves the refresh token, the header mapping, last
\* status and last content as they were, whether it returns or fails; the
\* verb request sent after a refresh carries the headers the call found.
C14_RefreshChangesNothing ==
    [][ \A t \in Threads :
          /\ RefreshStepOf(t)
                => /\ refreshToken' = refreshToken
                   /\ headers' = headers
                   /\ lastStatus' = lastStatus
                   /\ lastContent' = lastContent
          /\ (calls[t].pc = "func401" /\ calls'[t].nVerb = 1)
                => calls'[t].req[1].headers
                     \in { <<>>, <<Pre(calls[t]).headers>> }
      ]_vars

\* refreshLogin, called on a client that holds a refresh token, got a
\* response whose text contains refreshToken
C14_Witness ==
    \E t \in Threads :
        LET c == calls[t] IN
        /\ c.pc = "done" /\ c.op = "refreshLogin"
        /\ c.rreply.up /\ c.rreply.hasToken
        /\ Pre(c).refreshToken # <<>>
        /\ "Authorization" \in DOMAIN headers

\* C15: refreshLogin POSTs to base + account/login/refresh with the current
\* headers; when the response body contains a refreshToken it stores that
\* value as the refresh token and returns the response.
C15_RefreshStoresToken ==
    \A t \in Threads :
        LET c == calls[t] IN
        (c.pc = "done" /\ c.op = "refreshLogin" /\ c.rreply.up)
            => /\ c.req # <<>>
               /\ c.req[1].method = "post"
               /\ c.req[1].url
                    = BaseUrl \o <<"a","c","c","o","u","n","t","/","l","o","g",
                                   "i","n","/","r","e","f","r","e","s","h">>
               /\ c.req[1].headers = <<headers>>
               /\ c.rreply.hasToken
                    => (refreshToken = <<"r", "0">> /\ c.ret = "response")

\* C16: a verb call entered while last status is 200 whose response status
\* is none of 200, 401 and 404 returns that response and leaves last
\* content, the header mapping and the refresh token unchanged.
C16_OtherStatusPassedThrough ==
    \A t \in Threads :
        LET c == calls[t] IN
        (IsVerbDone(c) /\ Pre(c).lastStatus = 200 /\ c.resp # <<>>
            /\ c.resp[1].status \notin {200, 401, 404})
            => /\ c.ret = "response"
               /\ c.resp = <<c.reply>>
               /\ c.err.type = ""
               /\ lastContent = Pre(c).lastContent
               /\ headers = Pre(c).headers
               /\ refreshToken = Pre(c).refreshToken

\* on a logged-in client holding content, a verb call entered at 200 was
\* answered 500
C16_Witness ==
    \E t \in Threads :
        LET c == calls[t] IN
        /\ IsVerbDone(c) /\ Pre(c).lastStatus = 200 /\ GotResponse(c, 500)
        /\ Pre(c).lastContent # <<>>
        /\ Pre(c).lastContent # <<c.resp[1].body>>
        /\ "Authorization" \in DOMAIN headers

\* C17: every request of get and of post carries the header mapping stored
\* at the time of the call; every request of put or delete carries no
\* headers, whatever the mapping holds.
C17_HeadersOfRequests ==
    \A t \in Threads :
        LET c == calls[t] IN
        (c.op \in Verbs /\ c.nVerb > 0)
            => /\ c.req # <<>>
               /\ c.req[1].method = c.op
               /\ c.op \in {"get", "post"}
                    => c.req[1].headers = <<Pre(c).headers>>
               /\ c.op \in {"put", "delete"} => c.req[1].headers = <<>>

\* a put on a logged-in client has sent its request without headers
C17_Witness ==
    \E t \in Threads :
        LET c == calls[t] IN
        /\ c.op = "put" /\ c.nVerb = 1 /\ c.pc = "done"
        /\ "Authorization" \in DOMAIN Pre(c).headers
        /\ c.req[1].headers = <<>>

\* no call is in progress
Quiescent == \A t \in Threads : ~InProgress(calls[t])

\* C18: as long as no two calls have overlapped, between calls last status
\* is the status of the login or verb response received last; with two
\* calls interleaved this is lost (the witness).
C18_StatusOfLastResponse ==
    (~overlapped /\ Quiescent /\ lastReceived # <<>>)
        => lastStatus = lastReceived[1]

\* two verb calls have overlapped and both have completed, and last status
\* is not the status of the response received last
C18_Witness ==
    /\ overlapped
    /\ \A t \in Threads : IsVerbDone(calls[t])
    /\ lastReceived # <<>>
    /\ lastStatus # lastReceived[1]

====
